---------------------------- MODULE Spec2Model ----------------------------
(***************************************************************************)
(* State-machine model of src/app.py (SECOP2 query service):               *)
(*   construir_consulta_where  - filter object -> SoQL predicate           *)
(*   descargar_datos_paginado  - bounded, paginated HTTP download          *)
(*   crear_excel_en_memoria    - table -> worksheet with a table region    *)
(*   handle_query              - the /api/query entry point                *)
(*                                                                         *)
(* Text is a sequence of tokens.  A user-supplied character is a           *)
(* one-character token drawn from Alfabeto; the fixed text of the          *)
(* f-string templates is kept as longer tokens, and the quote characters   *)
(* the templates write are "'" tokens of their own, so that the quoting    *)
(* structure of a predicate can be read back from the token sequence.      *)
(***************************************************************************)
EXTENDS Integers, Sequences, FiniteSets, TLC

VARIABLES
    pc,                 \* position of the running function
    expirado,           \* datetime.now() > fecha_limite at the time of the call
    filtros,            \* request.json: the filter fields (name -> text)
    max_reg,            \* request.json: the raw 'max_registros' entry
    where_clause,       \* result of construir_consulta_where
    max_registros,      \* the record cap handed to descargar_datos_paginado
    todas_las_paginas,  \* row counts of the pages kept, in fetch order
    offset,
    total_registros,
    peticiones,         \* the HTTP GETs issued so far, with what came back
    excepcion,          \* exception in flight ("ninguna" when none)
    df,                 \* the table returned by descargar_datos_paginado
    libro,              \* the worksheet built by crear_excel_en_memoria
    respuesta           \* HTTP status answered by handle_query (0: none yet)

vars == <<pc, expirado, filtros, max_reg, where_clause, max_registros,
          todas_las_paginas, offset, total_registros, peticiones, excepcion,
          df, libro, respuesta>>

(***************************************************************************)
(* Bounds of the model.                                                    *)
(***************************************************************************)
MaxLen == 3         \* longest user-supplied text
MaxCampos == 2      \* most filter fields present in one filter object
MaxPaginas == 2     \* explicit record caps reach MaxPaginas full pages
Exceso == 1         \* rows a response may carry beyond what was asked
MaxCols == 11       \* widest table rendered
MaxFilas == 3       \* longest table rendered on its own
MaxAncho == 2       \* cell texts are 0 .. MaxAncho characters (scaled)

Alfabeto == {"a", "'", " ", ","}

Min(a, b) == IF a < b THEN a ELSE b
Max(a, b) == IF a > b THEN a ELSE b

Textos(n) == UNION {[1..k -> Alfabeto] : k \in 0..n}

(***************************************************************************)
(* Python str helpers, as the code uses them.                              *)
(***************************************************************************)
RECURSIVE Doblar(_)
\* texto.replace("'", "''")
Doblar(s) ==
    IF s = <<>> THEN <<>>
    ELSE (IF Head(s) = "'" THEN <<"'", "'">> ELSE <<Head(s)>>) \o Doblar(Tail(s))

RECURSIVE LStrip(_)
LStrip(s) == IF s # <<>> /\ Head(s) = " " THEN LStrip(Tail(s)) ELSE s

RECURSIVE RStrip(_)
RStrip(s) ==
    IF s # <<>> /\ s[Len(s)] = " " THEN RStrip(SubSeq(s, 1, Len(s) - 1)) ELSE s

\* str.strip()
Strip(s) == RStrip(LStrip(s))

RECURSIVE Split(_)
\* str.split(','): the pieces between commas, empty pieces kept
Split(s) ==
    IF \A i \in 1..Len(s) : s[i] # "," THEN <<s>>
    ELSE LET i == CHOOSE j \in 1..Len(s) :
                     s[j] = "," /\ \A k \in 1..(j - 1) : s[k] # ","
         IN  <<SubSeq(s, 1, i - 1)>> \o Split(SubSeq(s, i + 1, Len(s)))

RECURSIVE Join(_, _)
\* sep.join(partes)
Join(partes, sep) ==
    IF partes = <<>> THEN <<>>
    ELSE IF Len(partes) = 1 THEN partes[1]
    ELSE partes[1] \o sep \o Join(Tail(partes), sep)

RECURSIVE NoVacios(_)
\* [t for t in partes if t.strip()]
NoVacios(partes) ==
    IF partes = <<>> THEN <<>>
    ELSE (IF Strip(Head(partes)) # <<>> THEN <<Head(partes)>> ELSE <<>>)
         \o NoVacios(Tail(partes))

(***************************************************************************)
(* escapar_sql_mejorado, procesar_terminos_multiples                       *)
(***************************************************************************)
escapar_sql_mejorado(texto) ==
    IF texto = <<>> THEN texto ELSE Strip(Doblar(texto))

procesar_terminos_multiples(entrada) ==
    IF entrada = <<>> THEN <<>>
    ELSE LET piezas == NoVacios(Split(entrada))
         IN  [i \in 1..Len(piezas) |-> escapar_sql_mejorado(Strip(piezas[i]))]

(***************************************************************************)
(* construir_consulta_where                                                *)
(***************************************************************************)
CamposMultiples == <<"entidad", "departamento", "ciudad", "modalidades">>

CampoSql(clave) ==
    CASE clave = "entidad"      -> "entidad"
      [] clave = "departamento" -> "departamento_entidad"
      [] clave = "ciudad"       -> "ciudad_entidad"
      [] clave = "modalidades"  -> "modalidad_de_contratacion"

CamposFiltro ==
    {"proceso_de_compra", "entidad", "departamento", "ciudad", "modalidades",
     "estado_del_procedimiento", "estado_de_apertura_del_proceso",
     "fecha_inicio", "fecha_fin"}

\* filtros.get(clave) is truthy: the key is there and its text is not ''
Tiene(f, clave) == clave \in DOMAIN f /\ f[clave] # <<>>

Comillas(s) == <<"'">> \o s \o <<"'">>

CondProceso(f) ==
    IF Tiene(f, "proceso_de_compra")
    THEN LET numeros_proceso == procesar_terminos_multiples(f["proceso_de_compra"])
         IN  IF numeros_proceso # <<>>
             THEN << <<"proceso_de_compra", " IN (">>
                     \o Join([i \in 1..Len(numeros_proceso) |->
                                 Comillas(numeros_proceso[i])], <<", ">>)
                     \o <<")">> >>
             ELSE <<>>
    ELSE <<>>

CondLike(campo_sql, termino) ==
    <<"upper(", campo_sql, ")", " like upper(", "'", "%">> \o termino
    \o <<"%", "'", ")">>

CondMultiple(f, clave) ==
    IF Tiene(f, clave)
    THEN LET terminos == procesar_terminos_multiples(f[clave])
         IN  IF terminos # <<>>
             THEN << <<"(">>
                     \o Join([i \in 1..Len(terminos) |->
                                 CondLike(CampoSql(clave), terminos[i])], <<" OR ">>)
                     \o <<")">> >>
             ELSE <<>>
    ELSE <<>>

CondEstado(f, clave) ==
    IF Tiene(f, clave)
    THEN << <<clave, " = ">> \o Comillas(escapar_sql_mejorado(f[clave])) >>
    ELSE <<>>

CondFecha(f, clave, op, hora) ==
    IF Tiene(f, clave)
    THEN << <<"fecha_de_publicacion_del", op, "'">> \o f[clave] \o <<hora, "'">> >>
    ELSE <<>>

Condiciones(f) ==
    CondProceso(f)
    \o CondMultiple(f, CamposMultiples[1]) \o CondMultiple(f, CamposMultiples[2])
    \o CondMultiple(f, CamposMultiples[3]) \o CondMultiple(f, CamposMultiples[4])
    \o CondEstado(f, "estado_del_procedimiento")
    \o CondEstado(f, "estado_de_apertura_del_proceso")
    \o CondFecha(f, "fecha_inicio", " >= ", "T00:00:00")
    \o CondFecha(f, "fecha_fin", " <= ", "T23:59:59")

construir_consulta_where(f) == Join(Condiciones(f), <<" AND ">>)

(***************************************************************************)
(* crear_excel_en_memoria.  The worksheet is kept by what the openpyxl     *)
(* calls read and write: the append cursor (_current_row), the largest     *)
(* row and column that hold a cell (max_row, max_column), the merged       *)
(* ranges, the registered table and the column widths.  A table is         *)
(* [ncols, nrows, ancho]: ancho is the length of the longest text          *)
(* (header included) in each of its columns.                               *)
(***************************************************************************)
TituloLen == 38     \* len("Sociedad Colombiana de Consultoria SAS")
BannerCols == 10    \* 'A1:J1'
FilaTabla == 2      \* ref "A2:..."
Relleno == 2        \* width = length + 2

HojaNueva ==
    [current_row |-> 0, filas |-> 0, columnas |-> 0, merged |-> {},
     tabla |-> [c1 |-> 0, f1 |-> 0, c2 |-> 0, f2 |-> 0],
     anchos |-> <<>>, hecho |-> FALSE]

\* ws['A1'] = ...: the cell (1, 1) comes to exist
EscribirA1(ws) ==
    [ws EXCEPT !.current_row = Max(@, 1), !.filas = Max(@, 1),
               !.columnas = Max(@, 1)]

\* ws.merge_cells('A1:J1'): the range is recorded and every cell of it but
\* the first becomes a MergedCell of the sheet
merge_cells(ws, fila, c1, c2) ==
    [ws EXCEPT !.merged = @ \cup {[f |-> fila, c1 |-> c1, c2 |-> c2]},
               !.filas = Max(@, fila),
               !.columnas = Max(@, c2)]

\* ws.append(row) with n values: cells (current_row + 1, 1..n)
append(ws, n) ==
    [ws EXCEPT !.current_row = @ + 1,
               !.filas = IF n > 0 THEN Max(@, ws.current_row + 1) ELSE @,
               !.columnas = Max(@, n)]

\* for row in dataframe_to_rows(df): ws.append(row) -- k appends of n values
append_filas(ws, n, k) ==
    [ws EXCEPT !.current_row = @ + k,
               !.filas = IF n > 0 /\ k > 0 THEN Max(@, ws.current_row + k) ELSE @,
               !.columnas = IF k > 0 THEN Max(@, n) ELSE @]

\* ws.max_column, ws.max_row
max_column(ws) == Max(1, ws.columnas)
max_row(ws) == Max(1, ws.filas)

\* Table(ref=f"A2:{get_column_letter(ws.max_column)}{ws.max_row}")
add_table(ws) ==
    [ws EXCEPT !.tabla = [c1 |-> 1, f1 |-> FilaTabla,
                          c2 |-> max_column(ws), f2 |-> max_row(ws)]]

\* longest str(cell.value or "") in column c, over rows 1..max_row
LargoColumna(ws, tabla_df, c) ==
    Max(IF c = 1 THEN TituloLen ELSE 0,
        IF c <= tabla_df.ncols THEN tabla_df.ancho ELSE 0)

ajustar_anchos(ws, tabla_df) ==
    [ws EXCEPT !.anchos = [c \in 1..max_column(ws) |->
                              LargoColumna(ws, tabla_df, c) + Relleno]]

crear_excel_en_memoria(tabla_df) ==
    LET ws1 == merge_cells(EscribirA1(HojaNueva), 1, 1, BannerCols)
        ws2 == append(ws1, tabla_df.ncols)
        ws3 == append_filas(ws2, tabla_df.ncols, tabla_df.nrows)
        ws4 == add_table(ws3)
        ws5 == ajustar_anchos(ws4, tabla_df)
    IN  [ws5 EXCEPT !.hecho = TRUE]

(***************************************************************************)
(* descargar_datos_paginado.  A page is kept by its row count.             *)
(***************************************************************************)
limite_por_pagina == 10000
MaxRegistrosPorDefecto == 50000

\* urllib.parse.quote, token by token: letters, digits and _ . - ~ / stay,
\* every other character becomes %XX
Quote(tok) ==
    CASE tok = "'"            -> "%27"
      [] tok = " "            -> "%20"
      [] tok = ","            -> "%2C"
      [] tok = "%"            -> "%25"
      [] tok = "("            -> "%28"
      [] tok = ")"            -> "%29"
      [] tok = ", "           -> "%2C%20"
      [] tok = " IN ("        -> "%20IN%20%28"
      [] tok = "upper("       -> "upper%28"
      [] tok = " like upper(" -> "%20like%20upper%28"
      [] tok = " OR "         -> "%20OR%20"
      [] tok = " AND "        -> "%20AND%20"
      [] tok = " = "          -> "%20%3D%20"
      [] tok = " >= "         -> "%20%3E%3D%20"
      [] tok = " <= "         -> "%20%3C%3D%20"
      [] tok = "T00:00:00"    -> "T00%3A00%3A00"
      [] tok = "T23:59:59"    -> "T23%3A59%3A59"
      [] OTHER                -> tok

quote(s) == [i \in 1..Len(s) |-> Quote(s[i])]

limite_actual_sin_tope(total, tope) == limite_por_pagina

\* min(limite_por_pagina, max_registros - total_registros)
limite_actual(total, tope) == Min(limite_por_pagina, tope - total)

\* the query string of one request
Consulta(limite, desde, clausula) ==
    [limit |-> limite, offset |-> desde,
     where |-> IF clausula # <<>> THEN quote(clausula) ELSE <<>>]

PaginaCortaNunca(registros_pagina) == FALSE

\* registros_pagina < limite_por_pagina
PaginaCorta(registros_pagina) == registros_pagina < limite_por_pagina

\* What one GET may bring back: a 2xx answer whose CSV body parses to some
\* number of rows (the server is not bound by $limit), a 2xx answer with no
\* body at all, a non-2xx status, a timeout, or a connection failure.
FilasPosibles(limite) ==
    {n \in {0, 1, limite - 1, limite, limite_por_pagina - 1, limite_por_pagina}
           \cup {limite + e : e \in 1..Exceso}
           \cup {limite_por_pagina + e : e \in 1..Exceso} : n >= 0}

Respuestas(limite) ==
    {[tipo |-> "ok", filas |-> n] : n \in FilasPosibles(limite)}
    \cup {[tipo |-> t, filas |-> 0] :
             t \in {"http_error", "timeout", "conexion", "cuerpo_vacio"}}

\* the exception a response raises inside the loop ("ninguna": none)
ExcepcionDe(tipo) ==
    CASE tipo = "http_error"   -> "HTTPError"          \* raise_for_status()
      [] tipo = "timeout"      -> "Timeout"            \* requests.get
      [] tipo = "conexion"     -> "ConnectionError"    \* requests.get
      [] tipo = "cuerpo_vacio" -> "EmptyDataError"     \* pd.read_csv
      [] OTHER                 -> "ninguna"

RECURSIVE Suma(_)
Suma(s) == IF s = <<>> THEN 0 ELSE Head(s) + Suma(Tail(s))

\* pd.DataFrame() / pd.concat(todas_las_paginas, ignore_index=True)
TablaVacia == [ncols |-> 0, nrows |-> 0, ancho |-> 0]
Concat(paginas, ncols, ancho) ==
    IF paginas = <<>> THEN TablaVacia
    ELSE [ncols |-> ncols, nrows |-> Suma(paginas), ancho |-> ancho]

(***************************************************************************)
(* handle_query                                                            *)
(***************************************************************************)
CodigoErrorUnico(exc) == 500

\* the except clauses: requests.exceptions.HTTPError first, Exception next
CodigoError(exc) == IF exc = "HTTPError" THEN 502 ELSE 500

\* the 'max_registros' entries tried: missing, not a number, or an integer
TopesEnteros ==
    {-1, 0} \cup {k * limite_por_pagina + d :
                     k \in 0..(MaxPaginas - 1),
                     d \in {1, limite_por_pagina \div 2, limite_por_pagina - 1,
                            limite_por_pagina}}

EntradasMaxRegistros ==
    {[tipo |-> "ausente", valor |-> 0], [tipo |-> "texto", valor |-> 0]}
    \cup {[tipo |-> "entero", valor |-> n] : n \in TopesEnteros}

\* the filter objects tried by the end-to-end specification
FiltrosPeticion ==
    {<<>>,
     [entidad |-> <<"a", ",", "a">>],
     [estado_del_procedimiento |-> <<"a", "'">>, fecha_inicio |-> <<"a">>]}

\* the schemas the source's CSV may have
EsquemasFuente == {[ncols |-> 2, ancho |-> 1], [ncols |-> MaxCols, ancho |-> MaxAncho]}

Init ==
    /\ pc = "inicio"
    /\ expirado \in BOOLEAN
    /\ filtros \in FiltrosPeticion
    /\ max_reg \in EntradasMaxRegistros
    /\ where_clause = <<>>
    /\ max_registros = 0
    /\ todas_las_paginas = <<>>
    /\ offset = 0
    /\ total_registros = 0
    /\ peticiones = <<>>
    /\ excepcion = "ninguna"
    /\ df = TablaVacia
    /\ libro = HojaNueva
    /\ respuesta = 0

\* lines 160-163: the expiration gate
Expirado ==
    /\ pc = "inicio"
    /\ expirado
    /\ respuesta' = 403
    /\ pc' = "fin"
    /\ UNCHANGED <<expirado, filtros, max_reg, where_clause, max_registros,
                   todas_las_paginas, offset, total_registros, peticiones,
                   excepcion, df, libro>>

\* lines 166-172: the predicate is built, the cap is read with int() and
\* descargar_datos_paginado is entered (lines 76-78)
LeerPeticion ==
    /\ pc = "inicio"
    /\ ~expirado
    /\ where_clause' = construir_consulta_where(filtros)
    /\ IF max_reg.tipo = "texto"
       THEN /\ excepcion' = "ValueError"
            /\ pc' = "except"
            /\ UNCHANGED max_registros
       ELSE /\ max_registros' = IF max_reg.tipo = "ausente"
                                THEN MaxRegistrosPorDefecto ELSE max_reg.valor
            /\ pc' = "bucle"
            /\ UNCHANGED excepcion
    /\ todas_las_paginas' = <<>>
    /\ offset' = 0
    /\ total_registros' = 0
    /\ UNCHANGED <<expirado, filtros, max_reg, peticiones, df, libro, respuesta>>

\* lines 80-103: one turn of the while loop
Pagina ==
    /\ pc = "bucle"
    /\ total_registros < max_registros
    /\ LET limite == limite_actual(total_registros, max_registros)
       IN  \E r \in Respuestas(limite) :
             /\ peticiones' = Append(peticiones,
                    [consulta |-> Consulta(limite, offset, where_clause),
                     tipo |-> r.tipo, filas |-> r.filas])
             /\ IF ExcepcionDe(r.tipo) # "ninguna"
                THEN /\ excepcion' = ExcepcionDe(r.tipo)
                     /\ pc' = "except"
                     /\ UNCHANGED <<todas_las_paginas, total_registros, offset>>
                ELSE IF r.filas = 0
                THEN /\ pc' = "retorno"
                     /\ UNCHANGED <<todas_las_paginas, total_registros, offset,
                                    excepcion>>
                ELSE /\ todas_las_paginas' = Append(todas_las_paginas, r.filas)
                     /\ total_registros' = total_registros + r.filas
                     /\ IF PaginaCorta(r.filas)
                        THEN pc' = "retorno" /\ UNCHANGED offset
                        ELSE pc' = "bucle" /\ offset' = offset + limite_por_pagina
                     /\ UNCHANGED excepcion
    /\ UNCHANGED <<expirado, filtros, max_reg, where_clause, max_registros, df,
                   libro, respuesta>>

\* line 80: the loop condition fails
FinBucle ==
    /\ pc = "bucle"
    /\ ~(total_registros < max_registros)
    /\ pc' = "retorno"
    /\ UNCHANGED <<expirado, filtros, max_reg, where_clause, max_registros,
                   todas_las_paginas, offset, total_registros, peticiones,
                   excepcion, df, libro, respuesta>>

\* lines 105-108: the table is returned to handle_query
Retornar ==
    /\ pc = "retorno"
    /\ \E e \in EsquemasFuente : df' = Concat(todas_las_paginas, e.ncols, e.ancho)
    /\ pc' = "recibido"
    /\ UNCHANGED <<expirado, filtros, max_reg, where_clause, max_registros,
                   todas_las_paginas, offset, total_registros, peticiones,
                   excepcion, libro, respuesta>>

\* lines 174-189: not found, or the workbook is rendered and sent
Responder ==
    /\ pc = "recibido"
    /\ IF df.nrows = 0
       THEN respuesta' = 404 /\ UNCHANGED libro
       ELSE respuesta' = 200 /\ libro' = crear_excel_en_memoria(df)
    /\ pc' = "fin"
    /\ UNCHANGED <<expirado, filtros, max_reg, where_clause, max_registros,
                   todas_las_paginas, offset, total_registros, peticiones,
                   excepcion, df>>

\* lines 191-196: the except clauses
Manejar ==
    /\ pc = "except"
    /\ respuesta' = CodigoError(excepcion)
    /\ pc' = "fin"
    /\ UNCHANGED <<expirado, filtros, max_reg, where_clause, max_registros,
                   todas_las_paginas, offset, total_registros, peticiones,
                   excepcion, df, libro>>

Next ==
    \/ Expirado
    \/ LeerPeticion
    \/ Pagina
    \/ FinBucle
    \/ Retornar
    \/ Responder
    \/ Manejar

Spec == Init /\ [][Next]_vars

(***************************************************************************)
(* Specification of the predicate builder on its own: a filter object      *)
(* with at most MaxCampos fields, each a text of at most MaxLen            *)
(* characters, is handed to construir_consulta_where.                      *)
(***************************************************************************)
FiltrosAcotados ==
    UNION {[S -> Textos(MaxLen)] :
              S \in {T \in SUBSET CamposFiltro : Cardinality(T) <= MaxCampos}}

Reposo ==
    /\ expirado = FALSE
    /\ max_reg = [tipo |-> "ausente", valor |-> 0]
    /\ max_registros = 0
    /\ todas_las_paginas = <<>>
    /\ offset = 0
    /\ total_registros = 0
    /\ peticiones = <<>>
    /\ excepcion = "ninguna"
    /\ respuesta = 0

InitWhere ==
    /\ pc = "construir"
    /\ filtros \in FiltrosAcotados
    /\ where_clause = <<>>
    /\ df = TablaVacia
    /\ libro = HojaNueva
    /\ Reposo

ConstruirWhere ==
    /\ pc = "construir"
    /\ where_clause' = construir_consulta_where(filtros)
    /\ pc' = "construido"
    /\ UNCHANGED <<expirado, filtros, max_reg, max_registros, todas_las_paginas,
                   offset, total_registros, peticiones, excepcion, df, libro,
                   respuesta>>

NextWhere == ConstruirWhere

SpecWhere == InitWhere /\ [][NextWhere]_vars

(***************************************************************************)
(* Specification of the workbook emitter on its own.                       *)
(***************************************************************************)
InitExcel ==
    /\ pc = "excel"
    /\ df \in [ncols : 1..MaxCols, nrows : 0..MaxFilas, ancho : 1..MaxAncho]
    /\ libro = HojaNueva
    /\ filtros = <<>>
    /\ where_clause = <<>>
    /\ Reposo

CrearExcel ==
    /\ pc = "excel"
    /\ libro' = crear_excel_en_memoria(df)
    /\ pc' = "guardado"
    /\ UNCHANGED <<expirado, filtros, max_reg, where_clause, max_registros,
                   todas_las_paginas, offset, total_registros, peticiones,
                   excepcion, df, respuesta>>

NextExcel == CrearExcel

SpecExcel == InitExcel /\ [][NextExcel]_vars

\* C10: for a table of C >= 1 columns and N >= 0 rows the registered table
\* region is exactly columns 1..C, rows 2..N+2.
C10_RegionExacta ==
    (pc = "guardado" /\ libro.hecho) =>
        libro.tabla = [c1 |-> 1, f1 |-> 2, c2 |-> df.ncols, f2 |-> df.nrows + 2]

\* the same, for tables at least as wide as the banner
Aux_C10_TablasAnchas ==
    (pc = "guardado" /\ libro.hecho /\ df.ncols >= BannerCols) =>
        libro.tabla = [c1 |-> 1, f1 |-> 2, c2 |-> df.ncols, f2 |-> df.nrows + 2]

\* what the code registers: the banner's columns are part of the region
Aux_C10_RegionReal ==
    (pc = "guardado" /\ libro.hecho) =>
        libro.tabla = [c1 |-> 1, f1 |-> 2,
                       c2 |-> Max(df.ncols, BannerCols),
                       f2 |-> df.nrows + 2]

(***************************************************************************)
(* Reading a predicate back: quoted literals as the query dialect reads    *)
(* them (a quote opens a literal, two quotes inside it stand for one       *)
(* quote, a single quote closes it).                                       *)
(***************************************************************************)
RECURSIVE LexOk(_, _)
\* TRUE iff every user-supplied character lies inside a literal and the
\* last literal is closed
LexOk(s, dentro) ==
    IF s = <<>> THEN ~dentro
    ELSE IF dentro
         THEN IF Head(s) = "'"
              THEN IF Len(s) >= 2 /\ s[2] = "'"
                   THEN LexOk(Tail(Tail(s)), TRUE)
                   ELSE LexOk(Tail(s), FALSE)
              ELSE LexOk(Tail(s), TRUE)
         ELSE IF Head(s) = "'" THEN LexOk(Tail(s), TRUE)
              ELSE Head(s) \notin Alfabeto /\ LexOk(Tail(s), FALSE)

RECURSIVE Literales(_, _)
\* number of literals opened
Literales(s, dentro) ==
    IF s = <<>> THEN 0
    ELSE IF dentro
         THEN IF Head(s) = "'"
              THEN IF Len(s) >= 2 /\ s[2] = "'"
                   THEN Literales(Tail(Tail(s)), TRUE)
                   ELSE Literales(Tail(s), FALSE)
              ELSE Literales(Tail(s), TRUE)
         ELSE IF Head(s) = "'" THEN 1 + Literales(Tail(s), TRUE)
              ELSE Literales(Tail(s), FALSE)

CuentaComillas(s) == Cardinality({i \in 1..Len(s) : s[i] = "'"})

RECURSIVE ComillasUsuario(_, _)
\* quote characters in the values of the fields of S that f carries
ComillasUsuario(f, S) ==
    IF S = {} THEN 0
    ELSE LET k == CHOOSE x \in S : TRUE
         IN  (IF Tiene(f, k) THEN CuentaComillas(f[k]) ELSE 0)
             + ComillasUsuario(f, S \ {k})

Aparece(tok, s) == \E i \in 1..Len(s) : s[i] = tok

\* the column a field's clause is written against
ColumnaDe(clave) ==
    IF clave \in {"entidad", "departamento", "ciudad", "modalidades"}
    THEN CampoSql(clave) ELSE clave

CamposLista == {"proceso_de_compra", "entidad", "departamento", "ciudad", "modalidades"}
CamposEstado == {"estado_del_procedimiento", "estado_de_apertura_del_proceso"}
CamposFecha == {"fecha_inicio", "fecha_fin"}

\* the field is absent, empty, or holds no non-empty term once trimmed
SinTermino(f, clave) ==
    \/ clave \notin DOMAIN f
    \/ /\ clave \in CamposLista
       /\ \A i \in 1..Len(f[clave]) : f[clave][i] \in {" ", ","}
    \/ /\ clave \in CamposEstado
       /\ \A i \in 1..Len(f[clave]) : f[clave][i] = " "

(***************************************************************************)
(* Properties of the paginated download and of the entry point (Spec).     *)
(***************************************************************************)
Techo(a, b) == (a + b - 1) \div b

\* the download ran to its return statement and handed a table back
Devuelto == pc = "recibido"

NumPeticiones == Len(peticiones)

\* rows received before request i
Acumulado(i) == Suma([j \in 1..(i - 1) |-> peticiones[j].filas])

\* every response so far carried exactly as many rows as its request asked
FuenteIlimitada ==
    \A i \in 1..NumPeticiones :
        peticiones[i].tipo = "ok" /\ peticiones[i].filas = peticiones[i].consulta.limit

\* C1: with a positive cap, whatever row counts the successful responses
\* carry, the table returned has at most max_registros rows.
C1_FilasBajoElTope ==
    (Devuelto /\ max_registros > 0) => df.nrows <= max_registros

\* C2: with a positive cap the number of GETs issued never exceeds
\* ceil(max_registros / 10000), whatever the responses.
C2_PeticionesAcotadas ==
    max_registros > 0 => NumPeticiones <= Techo(max_registros, 10000)

C2_Testigo ==
    /\ Devuelto
    /\ max_registros = 15000
    /\ NumPeticiones = 2
    /\ peticiones[2].filas = 0

\* C3: when every response carries exactly the rows asked for, request i
\* goes to offset (i-1)*10000 with limit min(10000, cap - rows so far), no
\* request follows the one that brings the total to the cap, and the table
\* returned has exactly cap rows.
C3_FuenteIlimitada ==
    (max_registros > 0 /\ FuenteIlimitada) =>
        /\ \A i \in 1..NumPeticiones :
              /\ peticiones[i].consulta.offset = (i - 1) * 10000
              /\ peticiones[i].consulta.limit
                   = (IF max_registros - Acumulado(i) < 10000
                      THEN max_registros - Acumulado(i) ELSE 10000)
              /\ Acumulado(i) < max_registros
        /\ Devuelto =>
              /\ df.nrows = max_registros
              /\ NumPeticiones = Techo(max_registros, 10000)

C3_Testigo ==
    /\ Devuelto
    /\ FuenteIlimitada
    /\ max_registros = 15000
    /\ NumPeticiones = 2
    /\ peticiones[1].consulta.offset = 0 /\ peticiones[1].consulta.limit = 10000
    /\ peticiones[2].consulta.offset = 10000 /\ peticiones[2].consulta.limit = 5000
    /\ df.nrows = 15000

\* C4: once a page of fewer than 10000 rows (an empty one included) has
\* been received no further request is issued; the table returned has as
\* many rows as the non-empty pages received together, and no more than
\* max_registros.
C4_PaginaCortaTermina ==
    \A i \in 1..NumPeticiones :
        (peticiones[i].tipo = "ok" /\ peticiones[i].filas < 10000) =>
            /\ i = NumPeticiones
            /\ pc # "bucle"
            /\ Devuelto =>
                  /\ df.nrows = Acumulado(NumPeticiones + 1)
                  /\ df.nrows <= max_registros

\* the part of C4 that does not speak of the cap
Aux_C4_SinTope ==
    \A i \in 1..NumPeticiones :
        (peticiones[i].tipo = "ok" /\ peticiones[i].filas < 10000) =>
            /\ i = NumPeticiones
            /\ pc # "bucle"
            /\ Devuelto => df.nrows = Acumulado(NumPeticiones + 1)

\* C1 and C4 when no response carries more rows than its request asked
Aux_C1_FuenteObediente ==
    ( /\ Devuelto
      /\ max_registros > 0
      /\ \A i \in 1..NumPeticiones :
            peticiones[i].filas <= peticiones[i].consulta.limit )
    => df.nrows <= max_registros

C6_FalloDeTransporteEs502 ==
    \A i \in 1..NumPeticiones :
        peticiones[i].tipo \in {"timeout", "conexion"} =>
            /\ i = NumPeticiones
            /\ pc \in {"except", "fin"}
            /\ pc = "fin" => respuesta = 502

\* the part of C6 that holds: the request is not retried
Aux_C6_SinReintento ==
    \A i \in 1..NumPeticiones :
        peticiones[i].tipo \in {"timeout", "conexion"} =>
            /\ i = NumPeticiones
            /\ pc \in {"except", "fin"}

\* C7: descargar_datos_paginado only ever runs with a positive cap.
C7_TopePositivo ==
    pc \in {"bucle", "retorno"} => max_registros > 0

\* C8: a recognized filter field (process id, entity, department, city,
\* modality, status, opening-status) that is absent, empty or blank after
\* trimming contributes no clause to the predicate; when all of them are so
\* (and no date is given) the predicate is the empty string.
C8_CampoEnBlancoSinClausula ==
    pc = "construido" =>
        /\ \A k \in CamposLista \cup CamposEstado :
               SinTermino(filtros, k) => ~Aparece(ColumnaDe(k), where_clause)
        /\ ( /\ \A k \in CamposLista \cup CamposEstado : SinTermino(filtros, k)
             /\ \A k \in CamposFecha : ~Tiene(filtros, k) )
           => where_clause = <<>>

\* C9: every user-supplied value interpolated into the predicate (IN-list
\* term, partial-match term, status literal, start date, end date) has each
\* of its single quotes doubled: the predicate reads back as closed
\* literals with no user character outside them, and it holds exactly two
\* quotes per literal plus two per user-supplied quote.
C9_ComillasDobladas ==
    pc = "construido" =>
        /\ LexOk(where_clause, FALSE)
        /\ CuentaComillas(where_clause)
             = 2 * Literales(where_clause, FALSE)
               + 2 * ComillasUsuario(filtros, CamposFiltro)

\* the same two statements, away from the fields the code treats otherwise
Aux_C8_SoloListas ==
    pc = "construido" =>
        \A k \in CamposLista :
            SinTermino(filtros, k) => ~Aparece(ColumnaDe(k), where_clause)

Aux_C9_SinFechas ==
    (pc = "construido" /\ \A k \in CamposFecha : ~Tiene(filtros, k)) =>
        /\ LexOk(where_clause, FALSE)
        /\ CuentaComillas(where_clause)
             = 2 * Literales(where_clause, FALSE)
               + 2 * ComillasUsuario(filtros, CamposFiltro)

=============================================================================
